---- MODULE Spec2Model ----
(***************************************************************************)
(* fix_photo_dates.py: restore the creation/modification dates of photos   *)
(* exported from iCloud from the CSV metadata files lying beside them.     *)
(*                                                                         *)
(* One run of main() is modelled as a sequential state machine.  The file  *)
(* names and date texts of the model are strings; Chars gives the          *)
(* characters of a name, so that lower(), endswith() and splitext() are    *)
(* computed, and Fields the fields of a date text, so that the parse is.   *)
(* A date text in OUTPUT_FORMAT is the tuple of its numbers.               *)
(***************************************************************************)
EXTENDS Integers, Sequences, FiniteSets, TLC

\* Bounds of the model: entries of the folder, metadata rows in the folder.
MaxEntries == 3
MaxRows == 2

VARIABLES
    isDir,      \* os.path.isdir(folder)
    folder,     \* os.listdir(folder), in listing order: [name, content]
    dry_run,    \* args.dry_run
    created,    \* creation timestamp of every entry
    modified,   \* modification timestamp of every entry
    pc,         \* position of the run
    i,          \* index of the current entry of the running for loop
    df,         \* the merged metadata table
    extensions, \* result of get_non_csv_extensions
    media,      \* result of list_media_files
    date_str,   \* fix_dates: date_str of the file being written
    success,    \* fix_dates: success
    errors,     \* fix_dates: errors
    out,        \* the lines printed by this run
    exc,        \* the exception that ended main(), "" if none
    prev        \* the lines printed by the preceding (preview) run

vars == <<isDir, folder, dry_run, created, modified, pc, i, df,
          extensions, media, date_str, success, errors, out, exc, prev>>

inputs == <<isDir, folder>>
stamps == <<created, modified>>

----------------------------------------------------------------------------
\* The file names and the date texts of the model

PhotoLower == "a.jpg"
PhotoUpper == "a.JPG"
MetaLower == "m.csv"
MetaUpper == "M.CSV"

MediaNames == {PhotoLower, PhotoUpper}
CsvNames == {MetaLower, MetaUpper}
Names == MediaNames \cup CsvNames

Chars(name) ==
    CASE name = PhotoLower -> <<"a", ".", "j", "p", "g">>
      [] name = PhotoUpper -> <<"a", ".", "J", "P", "G">>
      [] name = MetaLower -> <<"m", ".", "c", "s", "v">>
      [] name = MetaUpper -> <<"M", ".", "C", "S", "V">>

DateAfternoon == "Monday January 02,2023 03:04 PM GMT"
DateMidnight == "Sunday June 11,2023 12:15 AM GMT"
DateMalformed == "Monday January 02,2023 15:04 PM GMT"
RawDates == {DateAfternoon, DateMidnight, DateMalformed}

Fields(raw) ==
    CASE raw = DateAfternoon ->
           [wd |-> "Monday", mon |-> "January", d |-> 2, Y |-> 2023, I |-> 3,
            M |-> 4, p |-> "PM", tz |-> "GMT"]
      [] raw = DateMidnight ->
           [wd |-> "Sunday", mon |-> "June", d |-> 11, Y |-> 2023, I |-> 12,
            M |-> 15, p |-> "AM", tz |-> "GMT"]
      [] raw = DateMalformed ->
           [wd |-> "Monday", mon |-> "January", d |-> 2, Y |-> 2023, I |-> 15,
            M |-> 4, p |-> "PM", tz |-> "GMT"]

----------------------------------------------------------------------------
\* Strings

Range(s) == {s[k] : k \in 1..Len(s)}

SetMax(S) == CHOOSE x \in S : \A y \in S : y <= x

SeqsUpTo(S, n) == UNION {[1..k -> S] : k \in 0..n}

\* str.lower() on the characters that occur in the names of the model
LowerChar(c) ==
    CASE c = "A" -> "a"
      [] c = "C" -> "c"
      [] c = "G" -> "g"
      [] c = "J" -> "j"
      [] c = "M" -> "m"
      [] c = "P" -> "p"
      [] c = "S" -> "s"
      [] c = "V" -> "v"
      [] OTHER -> c

Lower(s) == [k \in 1..Len(s) |-> LowerChar(s[k])]

EndsWith(s, suffix) ==
    /\ Len(s) >= Len(suffix)
    /\ SubSeq(s, Len(s) - Len(suffix) + 1, Len(s)) = suffix

\* os.path.splitext(f)[1]: from the last dot on, unless only dots precede it
SplitExt(s) ==
    LET dots == {k \in 1..Len(s) : s[k] = "."}
    IN  IF dots = {} THEN <<>>
        ELSE LET last == SetMax(dots)
             IN  IF \E j \in 1..(last - 1) : s[j] # "."
                 THEN SubSeq(s, last, Len(s))
                 ELSE <<>>

\* str.lstrip(".")
LStripDots(s) ==
    LET keep == {k \in 1..Len(s) : s[k] # "."}
    IN  IF keep = {} THEN <<>>
        ELSE SubSeq(s, CHOOSE k \in keep : \A j \in keep : k <= j, Len(s))

DotCsv == <<".", "c", "s", "v">>
Csv == <<"c", "s", "v">>

\* file.lower().endswith(".csv"), for every name of the model
LowerEndsWithCsv == [n \in Names |-> EndsWith(Lower(Chars(n)), DotCsv)]

\* os.path.splitext(file)[1] and the same with lstrip(".").lower()
SplitExtOf == [n \in Names |-> SplitExt(Chars(n))]
ExtensionOf == [n \in Names |-> Lower(LStripDots(SplitExt(Chars(n))))]

----------------------------------------------------------------------------
\* Dates

Weekdays == {"Monday", "Tuesday", "Wednesday", "Thursday", "Friday",
             "Saturday", "Sunday"}

\* %B
MonthNumber(name) ==
    CASE name = "January" -> 1
      [] name = "February" -> 2
      [] name = "March" -> 3
      [] name = "April" -> 4
      [] name = "May" -> 5
      [] name = "June" -> 6
      [] name = "July" -> 7
      [] name = "August" -> 8
      [] name = "September" -> 9
      [] name = "October" -> 10
      [] name = "November" -> 11
      [] name = "December" -> 12
      [] OTHER -> 0

IsLeap(y) == (y % 4 = 0 /\ y % 100 # 0) \/ y % 400 = 0

DaysInMonth(m, y) ==
    IF m = 2 THEN (IF IsLeap(y) THEN 29 ELSE 28)
    ELSE IF m \in {4, 6, 9, 11} THEN 30 ELSE 31

\* an empty cell, or the cell of a column the CSV file does not have
NaN == "NaN"
NaT == [year |-> 0, month |-> 0, day |-> 0, hour |-> 0, minute |-> 0]

\* DATE_FORMAT = "%A %B %d,%Y %I:%M %p GMT": does the text match it
MatchesDateFormat(raw) ==
    LET f == Fields(raw)
    IN  /\ f.wd \in Weekdays
        /\ MonthNumber(f.mon) # 0
        /\ f.Y \in 1..9999
        /\ f.d \in 1..DaysInMonth(MonthNumber(f.mon), f.Y)
        /\ f.I \in 1..12
        /\ f.M \in 0..59
        /\ f.p \in {"AM", "PM"}
        /\ f.tz = "GMT"

\* %I with %p: the hour of the 24-hour clock
Hour24(I, p) == (I % 12) + (IF p = "PM" THEN 12 ELSE 0)

\* pd.to_datetime(raw_date, format=DATE_FORMAT): raises on a text that does
\* not match, gives NaT for a missing value
ToDatetimeRaises(raw) == raw # NaN /\ ~MatchesDateFormat(raw)

ToDatetime(raw) ==
    IF raw = NaN THEN NaT
    ELSE LET f == Fields(raw)
         IN  [year |-> f.Y, month |-> MonthNumber(f.mon), day |-> f.d,
              hour |-> Hour24(f.I, f.p), minute |-> f.M]

\* original_dt.strftime(OUTPUT_FORMAT), OUTPUT_FORMAT = "%d.%m.%Y %H:%M";
\* NaT does not support strftime
StrftimeRaises(dt) == dt = NaT

Strftime(dt) == <<dt.day, dt.month, dt.year, dt.hour, dt.minute>>

FileDateMonthFirst(text) ==
    [year |-> text[3], month |-> text[1], day |-> text[2],
     hour |-> text[4], minute |-> text[5]]

\* the instant a text in OUTPUT_FORMAT denotes, as assigned to f.created and
\* f.modified
FileDate(text) ==
    [year |-> text[3], month |-> text[2], day |-> text[1],
     hour |-> text[4], minute |-> text[5]]

----------------------------------------------------------------------------
\* The inputs of a run: the folder and its CSV files

\* the timestamps the files carry before the run (the time of the export)
Exported == [year |-> 2024, month |-> 5, day |-> 6, hour |-> 7, minute |-> 8]

AllCols == {"imgName", "originalCreationDate"}

\* what pd.read_csv gives for a file: a frame, or an exception (an empty
\* file, an unparseable one, a directory named *.csv)
Frame(cols, rows) == [ok |-> TRUE, cols |-> cols, rows |-> rows]
Unreadable == [ok |-> FALSE, cols |-> {}, rows |-> <<>>]
NoContent == Frame({}, <<>>)

\* the rows of the CSV files of the model: the lower-case photo with every
\* date text, the upper-case one with one; and, in a file that has no
\* originalCreationDate column, the lower-case photo
MetadataRows ==
    [imgName : {PhotoLower}, date : RawDates]
    \cup [imgName : {PhotoUpper}, date : {DateAfternoon}]
RowsWithoutDate == [imgName : {PhotoLower}, date : {NaN}]

Contents(n) ==
    {Frame(AllCols, r) : r \in SeqsUpTo(MetadataRows, n)}
    \cup {Frame({"imgName"}, r) : r \in SeqsUpTo(RowsWithoutDate, n)}
    \cup {Unreadable}

Listings ==
    {s \in SeqsUpTo(Names, MaxEntries) :
        \A j, k \in 1..Len(s) : j # k => s[j] # s[k]}

ContentsFor(name, listing, n) ==
    IF name \in Range(listing) THEN Contents(n) ELSE {NoContent}

Name(k) == folder[k].name
Entries == {Name(k) : k \in 1..Len(folder)}

Init ==
    /\ isDir \in BOOLEAN
    /\ dry_run \in BOOLEAN
    /\ \E listing \in IF isDir THEN Listings ELSE {<<>>} :
         \E c1 \in ContentsFor(MetaLower, listing, MaxRows) :
           \E c2 \in ContentsFor(MetaUpper, listing, MaxRows - Len(c1.rows)) :
             folder = [k \in 1..Len(listing) |->
                         [name |-> listing[k],
                          content |-> IF listing[k] = MetaLower THEN c1
                                      ELSE IF listing[k] = MetaUpper THEN c2
                                      ELSE NoContent]]
    /\ created = [n \in Entries |-> Exported]
    /\ modified = [n \in Entries |-> Exported]
    /\ pc = "main"
    /\ i = 1
    /\ df = [cols |-> {}, rows |-> <<>>]
    /\ extensions = {}
    /\ media = <<>>
    /\ date_str = <<>>
    /\ success = 0
    /\ errors = 0
    /\ out = <<>>
    /\ exc = ""
    /\ prev = <<>>

----------------------------------------------------------------------------
\* main

Line(tag, file, text) == [tag |-> tag, file |-> file, text |-> text]

Raise(e) ==
    /\ pc' = "aborted"
    /\ exc' = e

MainNotADirectory ==
    /\ pc = "main"
    /\ ~isDir
    /\ Raise("NotADirectoryError")
    /\ UNCHANGED <<inputs, dry_run, stamps, i, df, extensions, media,
                   date_str, success, errors, out, prev>>

----------------------------------------------------------------------------
\* load_metadata, entered by main once the target is known to be a directory

LoadIsCsv(file) == LowerEndsWithCsv[file]

\* frames, when every pd.read_csv returns: one frame for each entry of the
\* listing named *.csv, in listing order
RECURSIVE ReadFrames(_)
ReadFrames(k) ==
    IF k = 0 THEN <<>>
    ELSE IF LoadIsCsv(Name(k))
         THEN Append(ReadFrames(k - 1), [cols |-> folder[k].content.cols,
                                         rows |-> folder[k].content.rows])
         ELSE ReadFrames(k - 1)

ReadCsvRaises ==
    \E k \in 1..Len(folder) : LoadIsCsv(Name(k)) /\ ~folder[k].content.ok

NoFramesNever(fr) == FALSE

NoFramesInverted(fr) == fr # <<>>

\* if not frames
NoFrames(fr) == fr = <<>>

RECURSIVE ConcatRows(_)
ConcatRows(fr) ==
    IF fr = <<>> THEN <<>> ELSE Head(fr).rows \o ConcatRows(Tail(fr))

\* pd.concat(frames, ignore_index=True): the rows in the order of the frames,
\* the columns of all of them
Concat(fr) ==
    [cols |-> UNION {fr[k].cols : k \in 1..Len(fr)}, rows |-> ConcatRows(fr)]

\* pd.read_csv raises on one of the CSV files
LoadReadCsvRaises ==
    /\ pc = "main"
    /\ isDir
    /\ ReadCsvRaises
    /\ Raise("ReadCsvError")
    /\ UNCHANGED <<inputs, dry_run, stamps, i, df, extensions, media,
                   date_str, success, errors, out, prev>>

LoadNoMetadata ==
    /\ pc = "main"
    /\ isDir
    /\ ~ReadCsvRaises
    /\ NoFrames(ReadFrames(Len(folder)))
    /\ Raise("FileNotFoundError")
    /\ UNCHANGED <<inputs, dry_run, stamps, i, df, extensions, media,
                   date_str, success, errors, out, prev>>

LoadMetadata ==
    /\ pc = "main"
    /\ isDir
    /\ ~ReadCsvRaises
    /\ LET frames == ReadFrames(Len(folder))
       IN  /\ ~NoFrames(frames)
           /\ df' = Concat(frames)
           /\ out' = Append(out, Line("INFO", "",
                                      <<Len(df'.rows), Len(frames)>>))
    /\ pc' = "extensions"
    /\ UNCHANGED <<inputs, dry_run, stamps, i, extensions, media,
                   date_str, success, errors, exc, prev>>

----------------------------------------------------------------------------
\* get_non_csv_extensions, list_media_files

Extension(file) == ExtensionOf[file]

NonCsvExtensions ==
    {Extension(Name(k)) : k \in {j \in 1..Len(folder) : SplitExtOf[Name(j)] # <<>>}}
    \ {Csv}

IsMedia(file) == Extension(file) \in extensions

GetNonCsvExtensions ==
    /\ pc = "extensions"
    /\ extensions' = NonCsvExtensions
    /\ pc' = "media"
    /\ UNCHANGED <<inputs, dry_run, stamps, i, df, media, date_str,
                   success, errors, out, exc, prev>>

ListMediaFiles ==
    /\ pc = "media"
    /\ media' = SelectSeq([k \in 1..Len(folder) |-> Name(k)], IsMedia)
    /\ out' = Append(out, Line("INFO", "", <<Len(media')>>))
    /\ pc' = "fix"
    /\ i' = 1
    /\ success' = 0
    /\ errors' = 0
    /\ UNCHANGED <<inputs, dry_run, stamps, df, extensions, date_str,
                   exc, prev>>

----------------------------------------------------------------------------
\* fix_dates

FixIsCsvCaseSensitive(file) == EndsWith(Chars(file), DotCsv)

\* filename.lower().endswith(".csv")
FixIsCsv(file) == LowerEndsWithCsv[file]

\* df["imgName"], [...]["originalCreationDate"]: KeyError on a missing column
LookupRaises(d) ==
    "imgName" \notin d.cols \/ "originalCreationDate" \notin d.cols

NameEqIgnoreCase(imgName, filename) ==
    Lower(Chars(imgName)) = Lower(Chars(filename))

\* df["imgName"] == filename
NameEq(imgName, filename) == imgName = filename

\* df[df["imgName"] == filename]["originalCreationDate"]
Match(d, filename) ==
    LET rows == SelectSeq(d.rows, LAMBDA r : NameEq(r.imgName, filename))
    IN  [k \in 1..Len(rows) |-> rows[k].date]

IlocLast(match) == match[Len(match)]

\* match.iloc[0]
Iloc0(match) == match[1]

PreviewNever(dr) == FALSE

Preview(dr) == dr

DryRunLineMonthFirst(filename, text) ==
    [tag |-> "DRY-RUN", file |-> filename,
     text |-> <<text[2], text[1], text[3], text[4], text[5]>>]

\* print(f"[DRY-RUN] Would set {filename} -> {date_str}")
DryRunLine(filename, text) ==
    [tag |-> "DRY-RUN", file |-> filename, text |-> text]

\* the end of one pass through the body of the for loop
Continue ==
    /\ i' = i + 1
    /\ pc' = "fix"

ExceptPropagates(filename, e) ==
    /\ pc' = "aborted"
    /\ UNCHANGED <<i, out, errors>>

\* except Exception as exc: print, errors += 1
Except(filename, e) ==
    /\ out' = Append(out, Line("ERROR", filename, <<e>>))
    /\ errors' = errors + 1
    /\ Continue

Succeed ==
    /\ success' = success + 1
    /\ Continue

FixSkipCsv ==
    /\ pc = "fix"
    /\ i <= Len(folder)
    /\ FixIsCsv(Name(i))
    /\ Continue
    /\ UNCHANGED <<inputs, dry_run, stamps, df, extensions, media,
                   date_str, success, errors, out, exc, prev>>

FixLookupRaises ==
    /\ pc = "fix"
    /\ i <= Len(folder)
    /\ ~FixIsCsv(Name(i))
    /\ LookupRaises(df)
    /\ Except(Name(i), "KeyError")
    /\ UNCHANGED <<inputs, dry_run, stamps, df, extensions, media,
                   date_str, success, exc, prev>>

FixNoMetadata ==
    /\ pc = "fix"
    /\ i <= Len(folder)
    /\ ~FixIsCsv(Name(i))
    /\ ~LookupRaises(df)
    /\ Match(df, Name(i)) = <<>>
    /\ out' = Append(out, Line("SKIP", Name(i), <<>>))
    /\ Continue
    /\ UNCHANGED <<inputs, dry_run, stamps, df, extensions, media,
                   date_str, success, errors, exc, prev>>

FixParseRaises ==
    /\ pc = "fix"
    /\ i <= Len(folder)
    /\ ~FixIsCsv(Name(i))
    /\ ~LookupRaises(df)
    /\ Match(df, Name(i)) # <<>>
    /\ LET raw_date == Iloc0(Match(df, Name(i)))
       IN  \/ ToDatetimeRaises(raw_date)
           \/ /\ ~ToDatetimeRaises(raw_date)
              /\ StrftimeRaises(ToDatetime(raw_date))
    /\ Except(Name(i), "ValueError")
    /\ UNCHANGED <<inputs, dry_run, stamps, df, extensions, media,
                   date_str, success, exc, prev>>

\* the date_str of an entry whose lookup and parse raise nothing
DateStr(d, filename) == Strftime(ToDatetime(Iloc0(Match(d, filename))))

Parses(d, filename) ==
    /\ ~LookupRaises(d)
    /\ Match(d, filename) # <<>>
    /\ ~ToDatetimeRaises(Iloc0(Match(d, filename)))
    /\ ~StrftimeRaises(ToDatetime(Iloc0(Match(d, filename))))

FixDryRun ==
    /\ pc = "fix"
    /\ i <= Len(folder)
    /\ ~FixIsCsv(Name(i))
    /\ Parses(df, Name(i))
    /\ Preview(dry_run)
    /\ out' = Append(out, DryRunLine(Name(i), DateStr(df, Name(i))))
    /\ Succeed
    /\ UNCHANGED <<inputs, dry_run, stamps, df, extensions, media,
                   date_str, errors, exc, prev>>

FixSetting ==
    /\ pc = "fix"
    /\ i <= Len(folder)
    /\ ~FixIsCsv(Name(i))
    /\ Parses(df, Name(i))
    /\ ~Preview(dry_run)
    /\ date_str' = DateStr(df, Name(i))
    /\ out' = Append(out, Line("OK", Name(i), date_str'))
    /\ pc' = "created"
    /\ UNCHANGED <<inputs, dry_run, stamps, i, df, extensions, media,
                   success, errors, exc, prev>>

SetModifiedFirst ==
    /\ pc = "created"
    /\ modified' = [modified EXCEPT ![Name(i)] = FileDate(date_str)]
    /\ pc' = "modified"
    /\ UNCHANGED <<inputs, dry_run, created, i, df, extensions, media,
                   date_str, success, errors, out, exc, prev>>

\* f = filedate.File(file_path); f.created = date_str
SetCreated ==
    /\ pc = "created"
    /\ created' = [created EXCEPT ![Name(i)] = FileDate(date_str)]
    /\ pc' = "modified"
    /\ UNCHANGED <<inputs, dry_run, modified, i, df, extensions, media,
                   date_str, success, errors, out, exc, prev>>

\* filedate.File(file_path) or the assignment raises (permissions, a locked
\* or vanished file)
SetCreatedRaises ==
    /\ pc = "created"
    /\ Except(Name(i), "OSError")
    /\ UNCHANGED <<inputs, dry_run, stamps, df, extensions, media,
                   date_str, success, exc, prev>>

\* f.modified = date_str; success += 1
SetModified ==
    /\ pc = "modified"
    /\ modified' = [modified EXCEPT ![Name(i)] = FileDate(date_str)]
    /\ Succeed
    /\ UNCHANGED <<inputs, dry_run, created, df, extensions, media,
                   date_str, errors, out, exc, prev>>

SetModifiedRaises ==
    /\ pc = "modified"
    /\ Except(Name(i), "OSError")
    /\ UNCHANGED <<inputs, dry_run, stamps, df, extensions, media,
                   date_str, success, exc, prev>>

FixDone ==
    /\ pc = "fix"
    /\ i > Len(folder)
    /\ out' = Append(out, Line("DONE", "", <<success, errors>>))
    /\ pc' = "done"
    /\ UNCHANGED <<inputs, dry_run, stamps, i, df, extensions, media,
                   date_str, success, errors, exc, prev>>

----------------------------------------------------------------------------
\* A second invocation on the same folder: the preview is followed by the
\* run that applies the dates.

Apply ==
    /\ pc = "done"
    /\ dry_run
    /\ prev = <<>>
    /\ prev' = out
    /\ dry_run' = FALSE
    /\ pc' = "main"
    /\ i' = 1
    /\ df' = [cols |-> {}, rows |-> <<>>]
    /\ extensions' = {}
    /\ media' = <<>>
    /\ date_str' = <<>>
    /\ success' = 0
    /\ errors' = 0
    /\ out' = <<>>
    /\ exc' = ""
    /\ UNCHANGED <<inputs, stamps>>

----------------------------------------------------------------------------

Next ==
    \/ MainNotADirectory
    \/ LoadReadCsvRaises
    \/ LoadNoMetadata
    \/ LoadMetadata
    \/ GetNonCsvExtensions
    \/ ListMediaFiles
    \/ FixSkipCsv
    \/ FixLookupRaises
    \/ FixNoMetadata
    \/ FixParseRaises
    \/ FixDryRun
    \/ FixSetting
    \/ SetCreated
    \/ SetCreatedRaises
    \/ SetModified
    \/ SetModifiedRaises
    \/ FixDone

Spec == Init /\ [][Next]_vars

\* the run is sequential and never suspended: it takes its next step until
\* it ends
FairSpec == Spec /\ WF_vars(Next)

NextTwice == Next \/ Apply

\* a preview run, then the applying run
InitPreview == Init /\ dry_run

SpecTwice == InitPreview /\ [][NextTwice]_vars

----------------------------------------------------------------------------
\* Vocabulary of the properties.  What the folder and the printed lines show,
\* stated without the operators of fix_dates.

TagLines(log, tag, n) ==
    {k \in 1..Len(log) : log[k].tag = tag /\ log[k].file = n}

Tagged(log, tag) == {k \in 1..Len(log) : log[k].tag = tag}

NamedCsv(n) == LowerEndsWithCsv[n]

NonCsvEntries == {n \in Entries : ~NamedCsv(n)}

NoCsvInFolder == \A n \in Entries : ~NamedCsv(n)

SomeCsvUnreadable ==
    \E k \in 1..Len(folder) : NamedCsv(Name(k)) /\ ~folder[k].content.ok

Untouched(n) == created[n] = Exported /\ modified[n] = Exported

\* the rows of the CSV files of the first k entries, in load order
RECURSIVE RowsInLoadOrder(_)
RowsInLoadOrder(k) ==
    IF k = 0 THEN <<>>
    ELSE RowsInLoadOrder(k - 1)
         \o (IF NamedCsv(Name(k)) THEN folder[k].content.rows ELSE <<>>)

AllRows == RowsInLoadOrder(Len(folder))

\* the merged table has both columns: some CSV file of the folder has them
ColumnsPresent ==
    \E k \in 1..Len(folder) :
      NamedCsv(Name(k)) /\ AllCols \subseteq folder[k].content.cols

NoRow == "no row"

\* the date text of the first of the rows that names n, NoRow if none does
FirstDate(rows, n) ==
    LET m == {k \in 1..Len(rows) : rows[k].imgName = n}
    IN  IF m = {} THEN NoRow
        ELSE rows[CHOOSE k \in m : \A j \in m : k <= j].date

WellFormedDates == {DateAfternoon, DateMidnight}

\* the text in OUTPUT_FORMAT and the instant of the well-formed date texts
ExpectedText(raw) ==
    CASE raw = DateAfternoon -> <<2, 1, 2023, 15, 4>>
      [] raw = DateMidnight -> <<11, 6, 2023, 0, 15>>

ExpectedInstant(raw) ==
    CASE raw = DateAfternoon ->
           [year |-> 2023, month |-> 1, day |-> 2, hour |-> 15, minute |-> 4]
      [] raw = DateMidnight ->
           [year |-> 2023, month |-> 6, day |-> 11, hour |-> 0, minute |-> 15]

\* the instant a text "dd.mm.YYYY HH:MM" names
DayFirst(t) ==
    [year |-> t[3], month |-> t[2], day |-> t[1], hour |-> t[4],
     minute |-> t[5]]

\* both timestamps of n are the instant of the date text raw
BothSetTo(n, raw) ==
    /\ raw \in WellFormedDates
    /\ created[n] = ExpectedInstant(raw)
    /\ modified[n] = ExpectedInstant(raw)

HasError(n) == \E k \in 1..Len(out) : out[k].tag = "ERROR" /\ out[k].file = n
HasOk(n) == \E k \in 1..Len(out) : out[k].tag = "OK" /\ out[k].file = n
WriteRaised(n) ==
    \E k \in 1..Len(out) :
      out[k].tag = "ERROR" /\ out[k].file = n /\ out[k].text = <<"OSError">>

OneSuccessNoError(n) ==
    /\ Cardinality(TagLines(out, "OK", n)) = 1
    /\ ~HasError(n)

Succeeded(n) ==
    \/ TagLines(out, "DRY-RUN", n) # {}
    \/ HasOk(n) /\ ~HasError(n)

Running == pc \notin {"done", "aborted"}

----------------------------------------------------------------------------
\* C1: in preview mode the creation and modification timestamps of every
\* entry of the folder keep, in every state of the run, the values they had
\* before it.
PreviewLeavesTimestamps == dry_run => \A n \in Entries : Untouched(n)

PreviewRunReported ==
    /\ dry_run
    /\ pc = "done"
    /\ \E n \in Entries : TagLines(out, "DRY-RUN", n) # {}

\* C2: for the same folder, the date-time text a preview run reports for a
\* file is the text the applying run reports and writes for it: the applying
\* run sets a date only where the preview announced it, the same text, and
\* at its end has announced every date of the preview.
PreviewReportsWhatApplyWrites ==
    prev # <<>> =>
      \A n \in Entries :
        LET previewed == {prev[k].text : k \in TagLines(prev, "DRY-RUN", n)}
            applied == {out[k].text : k \in TagLines(out, "OK", n)}
        IN  /\ applied \subseteq previewed
            /\ pc = "done" => applied = previewed
            /\ created[n] # Exported =>
                 \E t \in previewed : created[n] = DayFirst(t)
            /\ modified[n] # Exported =>
                 \E t \in previewed : modified[n] = DayFirst(t)

PreviewThenApplied ==
    /\ prev # <<>>
    /\ pc = "done"
    /\ \E n \in Entries :
         /\ TagLines(prev, "DRY-RUN", n) # {}
         /\ HasOk(n)
         /\ modified[n] # Exported

SkippedWhenNoRowMatches ==
    pc = "done" =>
      LET rows == AllRows
      IN  \A n \in NonCsvEntries :
            FirstDate(rows, n) = NoRow =>
              /\ Untouched(n)
              /\ Cardinality(TagLines(out, "SKIP", n)) = 1
              /\ ~HasError(n)

\* C4 amended: when the metadata table has the columns imgName and
\* originalCreationDate, a file named by no row (exact comparison) keeps its
\* timestamps and is reported as skipped, once, and not as an error: the
\* error counter counts the reported errors, none of them for that file.
SkippedWhenColumnsPresent ==
    pc = "done" =>
      LET rows == AllRows
      IN  /\ errors = Cardinality(Tagged(out, "ERROR"))
          /\ ColumnsPresent =>
               \A n \in NonCsvEntries :
                 FirstDate(rows, n) = NoRow =>
                   /\ Untouched(n)
                   /\ Cardinality(TagLines(out, "SKIP", n)) = 1
                   /\ ~HasError(n)
                   /\ ~Succeeded(n)

SkippedBesideOtherCase ==
    /\ pc = "done"
    /\ ColumnsPresent
    /\ \E n \in NonCsvEntries :
         /\ FirstDate(AllRows, n) = NoRow
         /\ TagLines(out, "SKIP", n) # {}
         /\ \E r \in Range(AllRows) :
              Lower(Chars(r.imgName)) = Lower(Chars(n))

\* C5: the date previewed or applied for a file is the date of its first
\* matching row in load order (the CSV files in listing order, the rows of a
\* file in row order); later matching rows have no influence.
FirstMatchingRowDecides ==
    (out # <<>>) =>
      LET rows == AllRows
      IN  /\ \A k \in 1..Len(out) :
               out[k].tag \in {"OK", "DRY-RUN"} =>
                 LET first == FirstDate(rows, out[k].file)
                 IN  /\ first \in WellFormedDates
                     /\ out[k].text = ExpectedText(first)
          /\ \A n \in Entries :
               /\ created[n] # Exported =>
                    LET first == FirstDate(rows, n)
                    IN  /\ first \in WellFormedDates
                        /\ created[n] = ExpectedInstant(first)
               /\ modified[n] # Exported =>
                    LET first == FirstDate(rows, n)
                    IN  /\ first \in WellFormedDates
                        /\ modified[n] = ExpectedInstant(first)

TwoFilesDisagree ==
    /\ pc = "done"
    /\ \E a, b \in 1..Len(folder) :
         /\ a < b
         /\ NamedCsv(Name(a))
         /\ NamedCsv(Name(b))
         /\ \E ra \in Range(folder[a].content.rows) :
              \E rb \in Range(folder[b].content.rows) :
                /\ ra.imgName = rb.imgName
                /\ ra.date # rb.date
                /\ rb.date \in WellFormedDates
                /\ \E k \in 1..Len(out) :
                     /\ out[k].tag \in {"OK", "DRY-RUN"}
                     /\ out[k].file = ra.imgName

\* C6: an exception of the lookup, the parse or a timestamp write of one
\* file is caught in fix_dates and counted as one error for that file; the
\* run is not aborted by it, goes on to the remaining entries and reaches
\* the summary.
ErrorsCounted ==
    /\ pc = "aborted" => out = <<>>
    /\ Running => ENABLED Next
    /\ errors = Cardinality(Tagged(out, "ERROR"))
    /\ \A n \in Entries : Cardinality(TagLines(out, "ERROR", n)) <= 1
    /\ pc = "done" =>
         LET rows == AllRows
         IN  /\ out[Len(out)] = Line("DONE", "", <<success, errors>>)
             /\ \A n \in NonCsvEntries :
                  /\ \E k \in 1..Len(out) : out[k].file = n
                  /\ HasError(n) <=>
                       \/ ~ColumnsPresent
                       \/ FirstDate(rows, n) \notin WellFormedDates \cup {NoRow}
                       \/ WriteRaised(n)

InFixDates == pc \in {"fix", "created", "modified"}

ErrorsAreCaughtAndCounted ==
    /\ []ErrorsCounted
    /\ [][InFixDates => (InFixDates' \/ pc' = "done")]_vars

ErrorThenNextFile ==
    /\ pc = "done"
    /\ \E j, k \in 1..Len(out) :
         /\ j < k
         /\ out[j].tag = "ERROR"
         /\ out[k].tag \in {"OK", "DRY-RUN", "SKIP"}
         /\ ~HasError(out[k].file)

\* C7: when the target is not a directory, or no entry of the folder is
\* named *.csv (in any case of the letters), the run aborts with
\* NotADirectoryError, respectively FileNotFoundError, before fix_dates is
\* entered: nothing is printed or counted and no timestamp changes.
AbortsBeforeFixDates ==
    (~isDir \/ NoCsvInFolder) =>
      /\ pc \in {"main", "aborted"}
      /\ \A n \in Entries : Untouched(n)
      /\ out = <<>>
      /\ success = 0
      /\ errors = 0
      /\ pc = "aborted" =>
           exc = IF ~isDir THEN "NotADirectoryError" ELSE "FileNotFoundError"
      /\ pc # "aborted" => ENABLED Next

NoMetadataAbort ==
    /\ pc = "aborted"
    /\ exc = "FileNotFoundError"
    /\ Cardinality(Entries) >= 2

\* C8 as stated: the run aborts only if the target is not a directory or
\* the folder has no entry named *.csv.
AbortOnlyWithoutCsv == pc = "aborted" => (~isDir \/ NoCsvInFolder)

\* C8 amended: the run aborts only if the target is not a directory, the
\* folder has no entry named *.csv, or pd.read_csv raises on one of its CSV
\* files; every run ends, so that when the target is a directory with at
\* least one entry named *.csv and every such entry is read, main goes
\* through load_metadata and the enumeration into fix_dates and reaches the
\* summary.
ReadableCsvInDirectory == isDir /\ ~NoCsvInFolder /\ ~SomeCsvUnreadable

RunEnded == pc \in {"done", "aborted"}

AbortsExplained ==
    /\ pc = "aborted" => ~ReadableCsvInDirectory
    /\ (RunEnded /\ ReadableCsvInDirectory) => pc = "done"
    /\ pc = "done" =>
         /\ Len(out) >= 3
         /\ out[1].tag = "INFO"
         /\ out[2].tag = "INFO"
         /\ out[Len(out)].tag = "DONE"

AbortOnlyWithoutReadableCsv ==
    /\ []AbortsExplained
    /\ <>RunEnded

SummaryReached ==
    /\ pc = "done"
    /\ isDir
    /\ ~NoCsvInFolder
    /\ NonCsvEntries # {}

\* C9 as stated: after a non-preview run a file counted as an error has
\* neither timestamp changed; every file has both timestamps equal to its
\* recorded date, counted as success, or both unchanged.
WritesAllOrNothing ==
    (pc = "done" /\ ~dry_run) =>
      LET rows == AllRows
      IN  \A n \in Entries :
            /\ HasError(n) => Untouched(n)
            /\ \/ Untouched(n)
               \/ BothSetTo(n, FirstDate(rows, n)) /\ ~HasError(n)

\* C9 amended: after a non-preview run a file counted as an error has its
\* modification timestamp unchanged, and its creation timestamp unchanged
\* or, the first write done and the second raising, equal to its recorded
\* date; a file counted as success has both timestamps equal to its recorded
\* date; every other entry has both unchanged.
OnlyCreatedWrittenOnError ==
    (pc = "done" /\ ~dry_run) =>
      LET rows == AllRows
      IN  /\ success = Cardinality({n \in Entries : HasOk(n) /\ ~HasError(n)})
          /\ \A n \in Entries :
               /\ HasError(n) =>
                    /\ modified[n] = Exported
                    /\ \/ created[n] = Exported
                       \/ /\ FirstDate(rows, n) \in WellFormedDates
                          /\ created[n] = ExpectedInstant(FirstDate(rows, n))
               /\ (HasOk(n) /\ ~HasError(n)) => BothSetTo(n, FirstDate(rows, n))
               /\ ~HasOk(n) => Untouched(n)

CreatedWrittenThenError ==
    /\ pc = "done"
    /\ ~dry_run
    /\ \E n \in Entries :
         /\ HasError(n)
         /\ created[n] # Exported
         /\ modified[n] = Exported

\* C10: every entry of the listing not named *.csv is visited once and has
\* one outcome, success, skip or error; at every point of the loop, and at
\* the summary, success + errors + skipped is the number of such entries
\* visited; the entries named *.csv count nowhere; the counters never
\* decrease.
OutcomesAccounted ==
    /\ pc \in {"fix", "created", "modified", "done"} =>
         success + errors + Cardinality(Tagged(out, "SKIP"))
           = Cardinality({k \in 1..(i - 1) : ~NamedCsv(Name(k))})
    /\ pc = "done" =>
         /\ i = Len(folder) + 1
         /\ success = Cardinality({n \in Entries : Succeeded(n)})
         /\ \A n \in Entries :
              IF NamedCsv(n)
              THEN \A k \in 1..Len(out) : out[k].file # n
              ELSE /\ Cardinality(TagLines(out, "SKIP", n))
                        + Cardinality(TagLines(out, "ERROR", n))
                        + (IF Succeeded(n) THEN 1 ELSE 0) = 1
                   /\ Cardinality(TagLines(out, "OK", n))
                        + Cardinality(TagLines(out, "DRY-RUN", n)) <= 1

OutcomeAccounting ==
    /\ []OutcomesAccounted
    /\ [][success' >= success /\ errors' >= errors]_vars

SuccessAndErrorCounted ==
    /\ pc = "done"
    /\ success >= 1
    /\ errors >= 1
    /\ ~NoCsvInFolder

====
